---------------------------- MODULE Spec2Model ----------------------------
(***************************************************************************)
(* Layer-lifecycle and hover-binding state engine of the FloodLevels page  *)
(* (src/src/pages/FloodLevels.js): React state and refs, the Mapbox        *)
(* renderer the component drives (sources, layers, layer-scoped pointer    *)
(* handlers, 'styledata' and 'idle' listeners) and the timers it starts.   *)
(* Every handler of the component is one atomic action: JavaScript runs a  *)
(* handler to completion, and React re-renders and runs the effects of a   *)
(* state change before the next event is delivered.                        *)
(***************************************************************************)
EXTENDS Integers, Sequences, FiniteSets, TLC

VARIABLES
    phase,               \* "loading": map created, 'load' pending; "ready"; "unmounted"
    selectedFloodLevel,  \* useState(9)
    hescoMode,           \* useState(false)
    mapReady,            \* useState(false)
    loadingLayers,       \* useState(false)
    mapRef,              \* mapRef.current !== null
    popupRef,            \* popupRef.current !== null
    popupsCreated,       \* number of mapboxgl.Popup built by setupHoverPopup
    hoverHandlersRef,    \* { move, out, layerId }
    activeLayerIdRef,    \* activeLayerIdRef.current
    styleLoaded,         \* map.isStyleLoaded()
    sources,             \* renderer sources flood64..flood76: tileset id or Absent
    layers,              \* renderer layers flood64-fill..: Absent, "none", "visible"
    handlers,            \* layer-scoped listeners registered with map.on(type, id, fn)
    styleListeners,      \* listeners registered with map.on('styledata', once)
    idleListeners,       \* listeners registered with map.once('idle', cb)
    timers,              \* callbacks pending in setTimeout(..., 300)
    threw,               \* a renderer call raised (duplicate source or layer id)
    lastUpdate,          \* (mode, level, selection change) of the last executed update body
    droppedUpdate,       \* a deferred updateFloodLayers call returned at its guard
    startedGen,          \* newest selection change whose layer update has executed
    staleRebind,         \* a superseded completion installed hover handlers
    probeRuns,           \* invocations of each probe callback handed to runWhenStyleReady
    toggleOut,           \* the call of toggleHescoMode under observation
    midFlight,           \* the last user operation left barrier mode before 'idle'
    mapRemoves,          \* remove() calls on each mapboxgl.Map created, in creation order
    lateFired,           \* a timer callback ran after the cleanup of the map effect
    unloadedMutation,    \* a flood source or layer was added while isStyleLoaded() was false
    rebuiltOnChange,     \* the update of a later change removed a source or layer that exists
    hoverProps,          \* properties of the feature the pointer last moved over
    popupHTML,           \* content of the hover popup while it is on the map
    requests,            \* gauge requests started by fetchWaterLevels, in start order
    aborter,             \* index of the request the current AbortController belongs to, 0 for null
    pollerMounted,       \* the `mounted` flag of the gauge polling effect
    interval,            \* the setInterval timer of the gauge polling effect is set
    waterLevels,         \* the waterLevels state and the poll that set it
    bizData,             \* the bizData state: 0 for null, else the fetch whose JSON it holds
    bizFetches,          \* fetches of businesses.geojson, in start order
    bizSource,           \* the map has the businesses source
    bizLayer,            \* the map has the businesses layer
    bizDataLoaded,       \* the bizDataLoaded state
    bizPopups,           \* business popups created so far
    ops                  \* user operations performed so far

vars == <<phase, selectedFloodLevel, hescoMode, mapReady, loadingLayers, mapRef,
          popupRef, popupsCreated, hoverHandlersRef, activeLayerIdRef, styleLoaded,
          sources, layers, handlers, styleListeners, idleListeners, timers, threw,
          lastUpdate, droppedUpdate, startedGen, staleRebind, probeRuns,
          toggleOut, midFlight, mapRemoves, lateFired, unloadedMutation,
          rebuiltOnChange,
          hoverProps,
          popupHTML,
          requests,
          aborter,
          pollerMounted,
          interval,
          waterLevels,
          bizData,
          bizFetches,
          bizSource,
          bizLayer,
          bizDataLoaded,
          bizPopups, ops>>

---------------------------------------------------------------------------
(* Bounds of the model *)

MaxOps == 3

MaxProbes == 6

MaxUpdateOps == 1

MaxHoverCalls == 2

(* Program constants *)

InitialLevel == 9

MinLevel == 1

MaxLevel == 18

FirstTile == 64

NumTiles == 13

LevelBase == 8

HescoMinLevel == 14

HescoMaxLevel == 18

Levels == MinLevel..MaxLevel

\* The levels the stepper selects in the interleaving model: one below the
\* tile range (5), the initial level and its neighbour (9, 10: base tilesets
\* only), two levels of the HESCO range (16, 17) and the top of the domain (18)
SteppedLevels == {5, 9, 10, 16, 17, 18}

validLevels == FirstTile..(FirstTile + NumTiles - 1)

Absent == "absent"

Undefined == "undefined"

None == [mode |-> FALSE, level |-> 0, gen |-> 0]

---------------------------------------------------------------------------
(* Tileset registry *)

tilesetBase ==
    (64 :> "ccav82q0") @@ (65 :> "3z7whbfp") @@ (66 :> "8kk8etzn") @@
    (67 :> "akq41oym") @@ (68 :> "5vsqqhd8") @@ (69 :> "awu2n97c") @@
    (70 :> "a2ttaa7t") @@ (71 :> "0rlea0ym") @@ (72 :> "44bl8opr") @@
    (73 :> "65em8or7") @@ (74 :> "9qrkn8pk") @@ (75 :> "3ktp8nyu") @@
    (76 :> "avpruavl")

\* the barrier registry without its entry for tile index 74
tilesetHesco_No74 ==
    (70 :> "cjs05ojz") @@ (71 :> "1z6funv6") @@ (72 :> "9kmxxb2g") @@
    (73 :> "4nh8p66z")

tilesetHesco ==
    (70 :> "cjs05ojz") @@ (71 :> "1z6funv6") @@ (72 :> "9kmxxb2g") @@
    (73 :> "4nh8p66z") @@ (74 :> "cz0f7io4")

\* tilesetMap.hesco[level] / tilesetMap.base[level]; a missing key reads undefined
tilesetMap(mode, level) ==
    IF mode
    THEN IF level \in DOMAIN tilesetHesco THEN tilesetHesco[level] ELSE Undefined
    ELSE IF level \in DOMAIN tilesetBase THEN tilesetBase[level] ELSE Undefined

HasTileset(mode, level) == tilesetMap(mode, level) # Undefined

---------------------------------------------------------------------------
(* Layer identity scheme *)

\* `flood${level}`
FloodId(level) == <<"flood", level>>

\* `${floodId}-fill`
FillId(floodId) == floodId \o <<"-fill">>

\* buildVisibleLayerId = (lvl) => `flood${64 + (lvl - 8)}-fill`
buildVisibleLayerId(lvl) == <<"flood", FirstTile + (lvl - LevelBase), "-fill">>

\* the source id and the layer id updateFloodLayers(mode) derives for a level
SourceIdOf(mode, level) == FloodId(level)

LayerIdOf(mode, level) == FillId(FloodId(level))

SourceIds == {FloodId(t) : t \in validLevels}

LayerIds == {FillId(FloodId(t)) : t \in validLevels}

---------------------------------------------------------------------------
(* The component's mutable world as one record, so that a handler and the  *)
(* functions it calls are operators from world to world.                   *)

World ==
    [mapRef |-> mapRef, loadingLayers |-> loadingLayers, popupRef |-> popupRef,
     popupsCreated |-> popupsCreated, hoverHandlersRef |-> hoverHandlersRef,
     activeLayerIdRef |-> activeLayerIdRef, styleLoaded |-> styleLoaded,
     sources |-> sources, layers |-> layers, handlers |-> handlers,
     styleListeners |-> styleListeners, idleListeners |-> idleListeners,
     timers |-> timers, threw |-> threw, lastUpdate |-> lastUpdate,
     droppedUpdate |-> droppedUpdate, startedGen |-> startedGen,
     staleRebind |-> staleRebind, probeRuns |-> probeRuns,
     mapRemoves |-> mapRemoves, lateFired |-> lateFired,
     unloadedMutation |-> unloadedMutation, rebuiltOnChange |-> rebuiltOnChange,
     hoverProps |-> hoverProps,
     popupHTML |-> popupHTML,
     requests |-> requests,
     aborter |-> aborter,
     pollerMounted |-> pollerMounted,
     interval |-> interval,
     waterLevels |-> waterLevels,
     bizData |-> bizData,
     bizFetches |-> bizFetches,
     bizSource |-> bizSource,
     bizLayer |-> bizLayer,
     bizDataLoaded |-> bizDataLoaded,
     bizPopups |-> bizPopups]

Commit(w) ==
    /\ mapRef' = w.mapRef
    /\ loadingLayers' = w.loadingLayers
    /\ popupRef' = w.popupRef
    /\ popupsCreated' = w.popupsCreated
    /\ hoverHandlersRef' = w.hoverHandlersRef
    /\ activeLayerIdRef' = w.activeLayerIdRef
    /\ styleLoaded' = w.styleLoaded
    /\ sources' = w.sources
    /\ layers' = w.layers
    /\ handlers' = w.handlers
    /\ styleListeners' = w.styleListeners
    /\ idleListeners' = w.idleListeners
    /\ timers' = w.timers
    /\ threw' = w.threw
    /\ lastUpdate' = w.lastUpdate
    /\ droppedUpdate' = w.droppedUpdate
    /\ startedGen' = w.startedGen
    /\ staleRebind' = w.staleRebind
    /\ probeRuns' = w.probeRuns
    /\ mapRemoves' = w.mapRemoves
    /\ lateFired' = w.lateFired
    /\ unloadedMutation' = w.unloadedMutation
    /\ rebuiltOnChange' = w.rebuiltOnChange
    /\ hoverProps' = w.hoverProps
    /\ popupHTML' = w.popupHTML
    /\ requests' = w.requests
    /\ aborter' = w.aborter
    /\ pollerMounted' = w.pollerMounted
    /\ interval' = w.interval
    /\ waterLevels' = w.waterLevels
    /\ bizData' = w.bizData
    /\ bizFetches' = w.bizFetches
    /\ bizSource' = w.bizSource
    /\ bizLayer' = w.bizLayer
    /\ bizDataLoaded' = w.bizDataLoaded
    /\ bizPopups' = w.bizPopups

NoHandlers == [move |-> 0, out |-> 0, layerId |-> <<>>]

\* Callbacks held by the renderer or a timer.  gen is the selection change
\* (value of ops) that created the callback.
UpdateFn(mode, level, gen) ==
    [kind |-> "update", mode |-> mode, level |-> level, layer |-> <<>>, gen |-> gen]

HoverFn(layer, gen) ==
    [kind |-> "hover", mode |-> FALSE, level |-> 0, layer |-> layer, gen |-> gen]

BizFn(data, gen) ==
    [kind |-> "biz", mode |-> FALSE, level |-> data, layer |-> <<>>, gen |-> gen]

FlipFn(level, gen) ==
    [kind |-> "flip", mode |-> FALSE, level |-> level, layer |-> <<>>, gen |-> gen]

ProbeFn(i) ==
    [kind |-> "probe", mode |-> FALSE, level |-> i, layer |-> <<>>, gen |-> 0]

---------------------------------------------------------------------------
(* Renderer capability, as the component uses it *)

\* map.getLayer(id)
GetLayer(w, id) == id \in DOMAIN w.layers /\ w.layers[id] # Absent

\* map.getSource(id)
GetSource(w, id) == id \in DOMAIN w.sources /\ w.sources[id] # Absent

\* map.removeLayer(id)
RemoveLayer(w, id) == [w EXCEPT !.layers[id] = Absent]

\* map.removeSource(id)
RemoveSource(w, id) == [w EXCEPT !.sources[id] = Absent]

\* map.addSource(id, {type: 'vector', url}): a duplicate id raises; the new
\* source has to load, so the style is not loaded until it has
AddSource(w, id, tilesetId) ==
    IF GetSource(w, id)
    THEN [w EXCEPT !.threw = TRUE]
    ELSE [w EXCEPT !.sources[id] = tilesetId, !.styleLoaded = FALSE]

\* map.addLayer({id, source, layout: {visibility}}): a duplicate id raises
AddLayer(w, id, visibility) ==
    IF GetLayer(w, id)
    THEN [w EXCEPT !.threw = TRUE]
    ELSE [w EXCEPT !.layers[id] = visibility]

\* map.on(type, layerId, fn)
On(w, type, layerId, fn) ==
    [w EXCEPT !.handlers = @ \cup {[type |-> type, layerId |-> layerId, fn |-> fn]}]

\* map.off(type, layerId, fn)
Off(w, type, layerId, fn) ==
    [w EXCEPT !.handlers = @ \ {[type |-> type, layerId |-> layerId, fn |-> fn]}]

\* a function object that is none of the registered ones
NewFn(w) ==
    LET used == {h.fn : h \in w.handlers}
                  \cup {w.hoverHandlersRef.move, w.hoverHandlersRef.out}
    IN  CHOOSE n \in 1..(Cardinality(used) + 1) : n \notin used

RECURSIVE RemoveFirst(_, _)
RemoveFirst(s, x) ==
    IF s = <<>> THEN <<>>
    ELSE IF Head(s) = x THEN Tail(s)
    ELSE <<Head(s)>> \o RemoveFirst(Tail(s), x)

\* the listener is not taken off
OffStyledata_Missing(w, fn) == w

\* map.off('styledata', once)
OffStyledata(w, fn) == [w EXCEPT !.styleListeners = RemoveFirst(@, fn)]

---------------------------------------------------------------------------
(* moveHandler / outHandler: the text of the hover popup.  A JavaScript    *)
(* value is a record; a number is held in hundredths.                      *)

JsUndefined == [type |-> "undefined", num |-> 0, str |-> ""]

JsNull == [type |-> "null", num |-> 0, str |-> ""]

JsNaN == [type |-> "nan", num |-> 0, str |-> ""]

JsNum(hundredths) == [type |-> "number", num |-> hundredths, str |-> ""]

JsStr(chars) == [type |-> "string", num |-> 0, str |-> chars]

\* the strings of the model and what the unary plus / Number() makes of them
NumericStrings == ("3.2" :> 320) @@ ("" :> 0)

\* +depth, Number(depth)
ToNumber(v) ==
    CASE v.type = "number" -> v
      [] v.type = "nan" -> JsNaN
      [] v.type = "null" -> JsNum(0)
      [] v.type = "undefined" -> JsNaN
      [] v.type = "string" ->
            IF v.str \in DOMAIN NumericStrings THEN JsNum(NumericStrings[v.str]) ELSE JsNaN

\* a ?? b
Coalesce(a, b) == IF a.type \in {"undefined", "null"} THEN b ELSE a

\* Number.isFinite(x)
NumberIsFinite(x) == x.type = "number"

\* x.toFixed(1), in tenths (x >= 0; a tie rounds up)
toFixed(hundredths) == (hundredths + 5) \div 10

\* `${formatted}` for a value that was not formatted
TemplateString(v) ==
    CASE v.type = "string" -> v.str
      [] v.type = "nan" -> "NaN"
      [] OTHER -> "?"

Fixed(tenths) == [kind |-> "fixed", tenths |-> tenths, str |-> ""]

Raw(chars) == [kind |-> "raw", tenths |-> 0, str |-> chars]

\* const formatted = Number.isFinite(+depth) ? Number(depth).toFixed(1) : depth
Formatted(depth) ==
    IF NumberIsFinite(ToNumber(depth))
    THEN Fixed(toFixed(ToNumber(depth).num))
    ELSE Raw(TemplateString(depth))

NoProps == [DN |-> JsUndefined, depth |-> JsUndefined]

NoPopup == [shown |-> FALSE, text |-> Raw("")]

\* moveHandler(e), props being the properties of e.features[0]:
\* `<b>Water Depth: ${formatted} ft</b>`
moveHandler(w, props) ==
    LET depth == Coalesce(Coalesce(props.DN, props.depth), JsStr("Unknown"))
    IN  [w EXCEPT !.hoverProps = props,
                  !.popupHTML = [shown |-> TRUE, text |-> Formatted(depth)]]

\* outHandler(): popupRef.current?.remove()
outHandler(w) == [w EXCEPT !.popupHTML = NoPopup]

---------------------------------------------------------------------------
(* setupHoverPopup: the body run inside runWhenStyleReady *)

\* the ref is reset but the old handlers are not taken off the map
ClearOldHandlers_NoOff(w) ==
    IF w.hoverHandlersRef.layerId # <<>>
    THEN [w EXCEPT !.hoverHandlersRef = NoHandlers]
    ELSE w

\* "clear old handlers"
ClearOldHandlers(w) ==
    IF w.hoverHandlersRef.layerId # <<>>
    THEN LET oldId == w.hoverHandlersRef.layerId
             w1 == IF w.hoverHandlersRef.move # 0
                   THEN Off(w, "mousemove", oldId, w.hoverHandlersRef.move) ELSE w
             w2 == IF w.hoverHandlersRef.out # 0
                   THEN Off(w1, "mouseleave", oldId, w.hoverHandlersRef.out) ELSE w1
         IN  [w2 EXCEPT !.hoverHandlersRef = NoHandlers]
    ELSE w

\* a popup is built on every call
EnsurePopup_Always(w) == [w EXCEPT !.popupRef = TRUE, !.popupsCreated = @ + 1]

\* if (!popupRef.current) popupRef.current = new mapboxgl.Popup(...)
EnsurePopup(w) ==
    IF ~w.popupRef
    THEN [w EXCEPT !.popupRef = TRUE, !.popupsCreated = @ + 1]
    ELSE w

\* the handlers are bound without asking the renderer for the layer
BindHandlers_NoLayerCheck(w, activeLayerId) ==
    LET moveFn == NewFn(w)
        w1 == On(w, "mousemove", activeLayerId, moveFn)
        outFn == NewFn(w1)
        w2 == On(w1, "mouseleave", activeLayerId, outFn)
    IN  [w2 EXCEPT !.hoverHandlersRef =
                       [move |-> moveFn, out |-> outFn,
                        layerId |-> activeLayerId],
                   !.activeLayerIdRef = activeLayerId]

\* if (map.getLayer(activeLayerId)) { map.on(...); hoverHandlersRef.current = ... }
BindHandlers(w, activeLayerId) ==
    IF GetLayer(w, activeLayerId)
    THEN LET moveFn == NewFn(w)
             w1 == On(w, "mousemove", activeLayerId, moveFn)
             outFn == NewFn(w1)
             w2 == On(w1, "mouseleave", activeLayerId, outFn)
         IN  [w2 EXCEPT !.hoverHandlersRef =
                            [move |-> moveFn, out |-> outFn,
                             layerId |-> activeLayerId],
                        !.activeLayerIdRef = activeLayerId]
    ELSE w

HoverBody(w, activeLayerId) ==
    BindHandlers(EnsurePopup(ClearOldHandlers(w)), activeLayerId)

---------------------------------------------------------------------------
(* updateFloodLayers *)

\* every layer is added visible
LayerVisibility_AllVisible(floodId, targetFloodId) == "visible"

\* visible = floodId === targetFloodId; layout.visibility
LayerVisibility(floodId, targetFloodId) ==
    IF floodId = targetFloodId THEN "visible" ELSE "none"

\* the guard for a missing tileset is absent
SkipLevel_Never(mode, tilesetId) == FALSE

\* if (mode && !tilesetId)
SkipLevel(mode, tilesetId) == mode /\ tilesetId = Undefined

\* nothing is removed before the levels are added again
ClearPrevious_Keep(w) == w

\* "clear previous": for every valid level, the layer and the source are
\* removed when they exist
ClearPrevious(w) ==
    [w EXCEPT !.layers = [id \in DOMAIN @ |->
                             IF id \in LayerIds /\ GetLayer(w, id) THEN Absent ELSE @[id]],
              !.sources = [id \in DOMAIN @ |->
                             IF id \in SourceIds /\ GetSource(w, id) THEN Absent ELSE @[id]]]

\* loadedCount === validLevels.length: setLoadingLayers(false); map.once('idle', ...)
AllLoaded(w, targetLayerId, gen) ==
    [w EXCEPT !.loadingLayers = FALSE,
              !.idleListeners = Append(@, HoverFn(targetLayerId, gen))]

\* the levels of the second validLevels.forEach that reach addSource/addLayer
AddedLevels(mode) == {level \in validLevels : ~SkipLevel(mode, tilesetMap(mode, level))}

\* only the levels that were added are counted
LoadedCount_AddedOnly(mode) == Cardinality(AddedLevels(mode))

\* loadedCount after the second forEach: loadedCount++ runs for a level that
\* returns at the guard and for a level that is added
LoadedCount(mode) ==
    Cardinality(validLevels \ AddedLevels(mode)) + Cardinality(AddedLevels(mode))

\* the second validLevels.forEach: each level either returns at the guard or
\* adds its source and its layer; both ways count into loadedCount
BuildLevels(w, mode, targetFloodId, gen) ==
    LET added == AddedLevels(mode)
        loadedCount == LoadedCount(mode)
        w1 == [w EXCEPT
                 !.sources = [id \in DOMAIN @ |->
                     IF id \in {FloodId(level) : level \in added}
                     THEN AddSource(w, id, tilesetMap(mode, id[2])).sources[id]
                     ELSE @[id]],
                 !.layers = [id \in DOMAIN @ |->
                     IF id \in {FillId(FloodId(level)) : level \in added}
                     THEN AddLayer(w, id, LayerVisibility(FloodId(id[2]), targetFloodId)).layers[id]
                     ELSE @[id]],
                 !.styleLoaded = IF added = {} THEN @ ELSE FALSE,
                 !.unloadedMutation =
                     \/ @
                     \/ \E level \in added :
                          ~AddSource(w, FloodId(level), tilesetMap(mode, level)).styleLoaded,
                 !.threw = \/ @
                           \/ \E level \in added :
                                \/ GetSource(w, FloodId(level))
                                \/ GetLayer(w, FillId(FloodId(level)))]
    IN  IF loadedCount = NumTiles THEN AllLoaded(w1, FillId(targetFloodId), gen) ELSE w1

\* the level scale is taken to start at 1
targetLevel_From1(level) == FirstTile + (level - 1)

\* the offset of the level scale is left out
targetLevel_NoOffset(level) == FirstTile + level

\* const targetLevel = 64 + (selectedFloodLevel - 8)
targetLevel(level) == FirstTile + (level - LevelBase)

\* the guard does not ask whether the style is loaded
updateFloodLayers_NoStyleGuard(w, mode, level, gen) ==
    IF ~w.mapRef
    THEN [w EXCEPT !.droppedUpdate = TRUE]
    ELSE LET targetFloodId == FloodId(targetLevel(level))
             w1 == [w EXCEPT !.loadingLayers = TRUE,
                             !.lastUpdate = [mode |-> mode, level |-> level, gen |-> gen],
                             !.startedGen = IF gen > @ THEN gen ELSE @,
                             !.rebuiltOnChange =
                                 \/ @
                                 \/ /\ w.lastUpdate # None
                                    /\ gen # w.lastUpdate.gen
                                    /\ ClearPrevious(w) # w]
         IN  BuildLevels(ClearPrevious(w1), mode, targetFloodId, gen)

\* updateFloodLayers(mode), with the selectedFloodLevel its closure captured
updateFloodLayers(w, mode, level, gen) ==
    IF ~w.mapRef \/ ~w.styleLoaded
    THEN [w EXCEPT !.droppedUpdate = TRUE]
    ELSE LET targetFloodId == FloodId(targetLevel(level))
             w1 == [w EXCEPT !.loadingLayers = TRUE,
                             !.lastUpdate = [mode |-> mode, level |-> level, gen |-> gen],
                             !.startedGen = IF gen > @ THEN gen ELSE @,
                             !.rebuiltOnChange =
                                 \/ @
                                 \/ /\ w.lastUpdate # None
                                    /\ gen # w.lastUpdate.gen
                                    /\ ClearPrevious(w) # w]
         IN  BuildLevels(ClearPrevious(w1), mode, targetFloodId, gen)

---------------------------------------------------------------------------
(* Readiness gate *)

\* fn(), for the functions the component hands to runWhenStyleReady
BIZ_LAYER_ID == <<"businesses-layer">>

BizHandlerTypes == {"mouseenter", "mousemove", "mouseleave"}

\* the callback the business effect hands to runWhenStyleReady: the source
\* (addSource or setData, either of which has the style load again), the
\* layer, a new popup, three new handlers, setBizDataLoaded(true); the
\* function it returns is dropped by runWhenStyleReady
BizBody(w, data) ==
    LET w1 == [w EXCEPT !.bizSource = TRUE, !.styleLoaded = FALSE,
                        !.bizLayer = TRUE, !.bizPopups = @ + 1]
        onEnter == NewFn(w1)
        w2 == On(w1, "mouseenter", BIZ_LAYER_ID, onEnter)
        onMove == NewFn(w2)
        w3 == On(w2, "mousemove", BIZ_LAYER_ID, onMove)
        onLeave == NewFn(w3)
        w4 == On(w3, "mouseleave", BIZ_LAYER_ID, onLeave)
    IN  [w4 EXCEPT !.bizDataLoaded = TRUE]

\* the callback of the visibility effect of the earlier variant:
\* setLayoutProperty(id, 'visibility', ...) for every flood layer that
\* exists, then setupHoverPopup(target)
FlipBody(w, level, gen) ==
    LET target == buildVisibleLayerId(level)
        w1 == [w EXCEPT !.layers =
                  [id \in LayerIds |->
                      IF w.layers[id] = Absent THEN Absent
                      ELSE IF id = target THEN "visible" ELSE "none"]]
    IN  IF ~w1.mapRef THEN w1
        ELSE IF w1.styleLoaded THEN HoverBody(w1, target)
        ELSE [w1 EXCEPT !.styleListeners = Append(@, HoverFn(target, gen))]

InvokeGate(w, fn) ==
    CASE fn.kind = "update" -> updateFloodLayers(w, fn.mode, fn.level, fn.gen)
      [] fn.kind = "hover" -> HoverBody(w, fn.layer)
      [] fn.kind = "flip" -> FlipBody(w, fn.level, fn.gen)
      [] fn.kind = "biz" -> BizBody(w, fn.level)
      [] fn.kind = "probe" -> [w EXCEPT !.probeRuns[fn.level] = @ + 1]

\* const once = () => { map.off('styledata', once); fn(); }
Once(w, fn) == InvokeGate(OffStyledata(w, fn), fn)

runWhenStyleReady(w, fn) ==
    IF ~w.mapRef THEN w
    ELSE IF w.styleLoaded THEN InvokeGate(w, fn)
    ELSE [w EXCEPT !.styleListeners = Append(@, fn)]

setupHoverPopup(w, activeLayerId, gen) ==
    IF ~w.mapRef \/ activeLayerId = <<>> THEN w
    ELSE runWhenStyleReady(w, HoverFn(activeLayerId, gen))

safeUpdateFloodLayers(w, mode, level, gen) ==
    IF ~w.mapRef THEN w
    ELSE runWhenStyleReady(w, UpdateFn(mode, level, gen))

\* the renderer fires 'styledata': every listener registered when the event
\* starts is called, in registration order
RECURSIVE FireStyledata(_, _)
FireStyledata(w, snapshot) ==
    IF snapshot = <<>> THEN w
    ELSE FireStyledata(Once(w, Head(snapshot)), Tail(snapshot))

\* a completion (idle callback or timer) of selection change fn.gen:
\* () => setupHoverPopup(targetLayerId)
Completion(w, fn) ==
    LET w1 == setupHoverPopup(w, fn.layer, fn.gen)
        stale == fn.gen < w.startedGen
        bound == w1.handlers # w.handlers
    IN  IF stale /\ bound THEN [w1 EXCEPT !.staleRebind = TRUE] ELSE w1

\* the renderer fires 'idle': every once('idle') listener is removed and called
RECURSIVE FireIdle(_, _)
FireIdle(w, snapshot) ==
    IF snapshot = <<>> THEN w
    ELSE FireIdle(Completion([w EXCEPT !.idleListeners = RemoveFirst(@, Head(snapshot))],
                             Head(snapshot)),
                  Tail(snapshot))

---------------------------------------------------------------------------
(* toggleHescoMode: the updater handed to setHescoMode *)

OutOfHescoRange(level) == level < HescoMinLevel \/ level > HescoMaxLevel

\* setTimeout(() => setupHoverPopup(visibleLayerId), 300)
SetTimeout(w, fn) == [w EXCEPT !.timers = Append(@, fn)]

\* the updater without its range guard
toggleHescoMode_NoRangeGuard(w, prev, level, gen) ==
    LET newMode == ~prev
    IN  [mode |-> newMode,
         w |-> SetTimeout(safeUpdateFloodLayers(w, newMode, level, gen),
                          HoverFn(buildVisibleLayerId(level), gen))]

\* (prev) => { ... }: the next hescoMode and the world after its side effects
toggleHescoMode(w, prev, level, gen) ==
    LET newMode == ~prev
    IN  IF newMode /\ OutOfHescoRange(level)
        THEN [mode |-> FALSE, w |-> safeUpdateFloodLayers(w, FALSE, level, gen)]
        ELSE [mode |-> newMode,
              w |-> SetTimeout(safeUpdateFloodLayers(w, newMode, level, gen),
                               HoverFn(buildVisibleLayerId(level), gen))]

\* disabled={loadingLayers || selectedFloodLevel < 14 || selectedFloodLevel > 18}
\* onClick={() => { if (selectedFloodLevel >= 14) toggleHescoMode(); }}
ToggleButtonEnabled ==
    /\ ~loadingLayers
    /\ ~OutOfHescoRange(selectedFloodLevel)
    /\ selectedFloodLevel >= HescoMinLevel

---------------------------------------------------------------------------
(* Initial state: the component has mounted and created its map *)

NoSources == [id \in SourceIds |-> Absent]

NoLayers == [id \in LayerIds |-> Absent]

NoToggle == [called |-> FALSE, prev |-> FALSE, level |-> 0, mode |-> FALSE]

\* the refs and the renderer right after the map effect created the map
\* useState([])
NoLevels == [by |-> 0, levels |-> <<>>]

InitWorld ==
    [mapRef |-> FALSE, loadingLayers |-> FALSE, popupRef |-> FALSE,
     popupsCreated |-> 0, hoverHandlersRef |-> NoHandlers,
     activeLayerIdRef |-> <<>>, styleLoaded |-> FALSE,
     sources |-> NoSources, layers |-> NoLayers, handlers |-> {},
     styleListeners |-> <<>>, idleListeners |-> <<>>,
     timers |-> <<>>, threw |-> FALSE, lastUpdate |-> None,
     droppedUpdate |-> FALSE, startedGen |-> 0,
     staleRebind |-> FALSE, probeRuns |-> [i \in 1..MaxProbes |-> 0],
     mapRemoves |-> <<0>>, lateFired |-> FALSE, unloadedMutation |-> FALSE,
     rebuiltOnChange |-> FALSE,
     hoverProps |-> NoProps,
     popupHTML |-> NoPopup,
     requests |-> <<>>,
     aborter |-> 0,
     pollerMounted |-> FALSE,
     interval |-> FALSE,
     waterLevels |-> NoLevels,
     bizData |-> 0,
     bizFetches |-> <<>>,
     bizSource |-> FALSE,
     bizLayer |-> FALSE,
     bizDataLoaded |-> FALSE,
     bizPopups |-> 0]

Start(w) ==
    /\ mapRef = w.mapRef
    /\ loadingLayers = w.loadingLayers
    /\ popupRef = w.popupRef
    /\ popupsCreated = w.popupsCreated
    /\ hoverHandlersRef = w.hoverHandlersRef
    /\ activeLayerIdRef = w.activeLayerIdRef
    /\ styleLoaded = w.styleLoaded
    /\ sources = w.sources
    /\ layers = w.layers
    /\ handlers = w.handlers
    /\ styleListeners = w.styleListeners
    /\ idleListeners = w.idleListeners
    /\ timers = w.timers
    /\ threw = w.threw
    /\ lastUpdate = w.lastUpdate
    /\ droppedUpdate = w.droppedUpdate
    /\ startedGen = w.startedGen
    /\ staleRebind = w.staleRebind
    /\ probeRuns = w.probeRuns
    /\ mapRemoves = w.mapRemoves
    /\ lateFired = w.lateFired
    /\ unloadedMutation = w.unloadedMutation
    /\ rebuiltOnChange = w.rebuiltOnChange
    /\ hoverProps = w.hoverProps
    /\ popupHTML = w.popupHTML
    /\ requests = w.requests
    /\ aborter = w.aborter
    /\ pollerMounted = w.pollerMounted
    /\ interval = w.interval
    /\ waterLevels = w.waterLevels
    /\ bizData = w.bizData
    /\ bizFetches = w.bizFetches
    /\ bizSource = w.bizSource
    /\ bizLayer = w.bizLayer
    /\ bizDataLoaded = w.bizDataLoaded
    /\ bizPopups = w.bizPopups

Init ==
    /\ phase = "loading"
    /\ selectedFloodLevel = InitialLevel
    /\ hescoMode = FALSE
    /\ mapReady = FALSE
    /\ Start(InitWorld)
    /\ toggleOut = NoToggle
    /\ midFlight = FALSE
    /\ ops = 0

---------------------------------------------------------------------------
(* Actions *)

\* map.on('load'): mapRef.current = map; setMapReady(true); then both
\* effects that depend on mapReady run safeUpdateFloodLayers(hescoMode)
OnLoad(w, mode, level, gen) ==
    LET w0 == [w EXCEPT !.mapRef = TRUE, !.styleLoaded = TRUE]
        w1 == safeUpdateFloodLayers(w0, mode, level, gen)
    IN  safeUpdateFloodLayers(w1, mode, level, gen)

Load ==
    /\ phase = "loading"
    /\ phase' = "ready"
    /\ mapReady' = TRUE
    /\ Commit(OnLoad(World, hescoMode, selectedFloodLevel, ops))
    /\ UNCHANGED <<selectedFloodLevel, hescoMode, toggleOut, midFlight, ops>>

\* the stepper calls setSelectedFloodLevel(level); the effect on
\* [selectedFloodLevel, hescoMode, mapReady, safeUpdateFloodLayers] re-runs
SetSelectedFloodLevel(level) ==
    /\ phase # "unmounted"
    /\ level # selectedFloodLevel
    /\ selectedFloodLevel' = level
    /\ ops' = ops + 1
    /\ IF mapReady
       THEN Commit(safeUpdateFloodLayers(World, hescoMode, level, ops + 1))
       ELSE Commit(World)
    /\ midFlight' = FALSE
    /\ UNCHANGED <<phase, hescoMode, mapReady, toggleOut>>

SelectLevel(level) == ops < MaxOps /\ SetSelectedFloodLevel(level)

\* click on the HESCO button: setHescoMode(updater); when hescoMode changed
\* the same effect re-runs with the new mode
\* level 16 in barrier mode, the barrier layers built, the renderer not yet idle
BarrierMidFlight ==
    /\ phase = "ready"
    /\ hescoMode
    /\ selectedFloodLevel = 16
    /\ lastUpdate.mode /\ lastUpdate.level = 16
    /\ idleListeners # <<>>

SetHescoMode ==
    /\ LET r == toggleHescoMode(World, hescoMode, selectedFloodLevel, ops + 1)
       IN  /\ hescoMode' = r.mode
           /\ IF r.mode # hescoMode /\ mapReady
              THEN Commit(safeUpdateFloodLayers(r.w, r.mode, selectedFloodLevel, ops + 1))
              ELSE Commit(r.w)
    /\ ops' = ops + 1

ToggleHesco ==
    /\ phase # "unmounted"
    /\ ops < MaxOps
    /\ ToggleButtonEnabled
    /\ SetHescoMode
    /\ midFlight' = BarrierMidFlight
    /\ UNCHANGED <<phase, selectedFloodLevel, mapReady, toggleOut>>

\* the stepper calls onFloodLayerChange()
StepperLayerChange ==
    /\ phase # "unmounted"
    /\ ops < MaxOps
    /\ ops' = ops + 1
    /\ Commit(setupHoverPopup(World, buildVisibleLayerId(selectedFloodLevel), ops + 1))
    /\ midFlight' = FALSE
    /\ UNCHANGED <<phase, selectedFloodLevel, hescoMode, mapReady, toggleOut>>

\* the renderer fires 'styledata' (the style changed; its sources may still load)
StyleData ==
    /\ phase = "ready"
    /\ styleListeners # <<>>
    /\ Commit(FireStyledata(World, styleListeners))
    /\ UNCHANGED <<phase, selectedFloodLevel, hescoMode, mapReady, toggleOut, midFlight, ops>>

\* the sources added last have loaded: isStyleLoaded() is true again
SourcesLoaded ==
    /\ phase = "ready"
    /\ ~styleLoaded
    /\ Commit([World EXCEPT !.styleLoaded = TRUE])
    /\ UNCHANGED <<phase, selectedFloodLevel, hescoMode, mapReady, toggleOut, midFlight, ops>>

\* the renderer fires 'idle': nothing is left to load or render
Idle ==
    /\ phase = "ready"
    /\ styleLoaded
    /\ idleListeners # <<>>
    /\ Commit(FireIdle(World, idleListeners))
    /\ UNCHANGED <<phase, selectedFloodLevel, hescoMode, mapReady, toggleOut, midFlight, ops>>

\* the oldest 300 ms timer fires
TimerFires ==
    /\ timers # <<>>
    /\ Commit(Completion([World EXCEPT !.timers = Tail(@),
                                       !.lateFired = @ \/ phase = "unmounted"],
                          Head(timers)))
    /\ UNCHANGED <<phase, selectedFloodLevel, hescoMode, mapReady, toggleOut, midFlight, ops>>

\* the cleanup does not call map.remove()
MapRemove_Missing(w) == w

\* map.remove(), on the map the effect created: the renderer drops its
\* style, its sources and layers and every listener
MapRemove(w) ==
    [w EXCEPT !.mapRemoves = [w.mapRemoves EXCEPT ![Len(w.mapRemoves)] = @ + 1],
              !.handlers = {},
              !.styleListeners = <<>>, !.idleListeners = <<>>,
              !.sources = NoSources, !.layers = NoLayers,
              !.bizSource = FALSE, !.bizLayer = FALSE,
              !.styleLoaded = FALSE]

\* the ref keeps the removed map
MapCleanup_KeepRef(w) == MapRemove(w)

\* map.remove(); mapRef.current = null
MapCleanup(w) == [MapRemove(w) EXCEPT !.mapRef = FALSE]

\* cleanup of the map effect: map.remove(); mapRef.current = null; setMapReady(false)
Unmount ==
    /\ phase # "unmounted"
    /\ phase' = "unmounted"
    /\ mapReady' = FALSE
    /\ Commit(MapCleanup(World))
    /\ UNCHANGED <<selectedFloodLevel, hescoMode, toggleOut, midFlight, ops>>

Next ==
    \/ Load
    \/ \E level \in SteppedLevels : SelectLevel(level)
    \/ ToggleHesco
    \/ StepperLayerChange
    \/ StyleData
    \/ SourcesLoaded
    \/ Idle
    \/ TimerFires
    \/ Unmount

Spec == Init /\ [][Next]_vars

---------------------------------------------------------------------------
(* updateFloodLayers over its whole input domain: any mode and any level   *)
(* of the domain may be selected when the map loads, then any level.       *)

InitUpdate ==
    /\ phase = "loading"
    /\ selectedFloodLevel \in Levels
    /\ hescoMode \in BOOLEAN
    /\ mapReady = FALSE
    /\ Start(InitWorld)
    /\ toggleOut = NoToggle
    /\ midFlight = FALSE
    /\ ops = 0

SelectAnyLevel(level) == ops < MaxUpdateOps /\ SetSelectedFloodLevel(level)

NextUpdate ==
    \/ Load
    \/ \E level \in Levels : SelectAnyLevel(level)
    \/ SourcesLoaded
    \/ StyleData

SpecUpdate == InitUpdate /\ [][NextUpdate]_vars

---------------------------------------------------------------------------
(* toggleHescoMode called at any level and in either mode of a loaded map  *)

InitToggle ==
    \E prev \in BOOLEAN, level \in Levels :
        /\ phase = "ready"
        /\ selectedFloodLevel = level
        /\ hescoMode = prev
        /\ mapReady = TRUE
        /\ Start(OnLoad(InitWorld, prev, level, 0))
        /\ toggleOut = NoToggle
        /\ midFlight = FALSE
        /\ ops = 0

CallToggle ==
    /\ ~toggleOut.called
    /\ SetHescoMode
    /\ toggleOut' = [called |-> TRUE, prev |-> hescoMode,
                     level |-> selectedFloodLevel, mode |-> hescoMode']
    /\ UNCHANGED <<phase, selectedFloodLevel, mapReady, midFlight>>

NextToggle ==
    \/ CallToggle
    \/ SourcesLoaded
    \/ StyleData
    \/ Idle
    \/ TimerFires

SpecToggle == InitToggle /\ [][NextToggle]_vars

---------------------------------------------------------------------------
(* runWhenStyleReady called with probe callbacks while the style loads,    *)
(* changes and fires 'styledata'                                           *)

InitGate ==
    \E loaded \in BOOLEAN :
        /\ phase = "ready"
        /\ selectedFloodLevel = InitialLevel
        /\ hescoMode = FALSE
        /\ mapReady = TRUE
        /\ Start([InitWorld EXCEPT !.mapRef = TRUE, !.styleLoaded = loaded])
        /\ toggleOut = NoToggle
        /\ midFlight = FALSE
        /\ ops = 0

\* runWhenStyleReady(map, fn) with the next probe as fn
GateCall ==
    /\ ops < MaxProbes
    /\ ops' = ops + 1
    /\ Commit(runWhenStyleReady(World, ProbeFn(ops + 1)))
    /\ UNCHANGED <<phase, selectedFloodLevel, hescoMode, mapReady, toggleOut, midFlight>>

\* the style changes: isStyleLoaded() is false until it has loaded again
StyleBusy ==
    /\ phase = "ready"
    /\ styleLoaded
    /\ Commit([World EXCEPT !.styleLoaded = FALSE])
    /\ UNCHANGED <<phase, selectedFloodLevel, hescoMode, mapReady, toggleOut, midFlight, ops>>

NextGate ==
    \/ GateCall
    \/ StyleBusy
    \/ SourcesLoaded
    \/ StyleData

SpecGate == InitGate /\ [][NextGate]_vars

---------------------------------------------------------------------------
(* The map effect run again after its cleanup, as React does when it       *)
(* re-runs the effects of a mounted component: state and refs are kept     *)

\* if (mapRef.current) return; const map = new mapboxgl.Map({...})
Mount ==
    /\ phase = "unmounted"
    /\ ops < MaxOps
    /\ ~mapRef
    /\ phase' = "loading"
    /\ ops' = ops + 1
    /\ Commit([World EXCEPT !.mapRemoves = Append(@, 0)])
    /\ UNCHANGED <<selectedFloodLevel, hescoMode, mapReady, toggleOut, midFlight>>

LifeLevels == {10, 16}

NextLife ==
    \/ Load
    \/ \E level \in LifeLevels : SelectLevel(level)
    \/ ToggleHesco
    \/ StyleData
    \/ SourcesLoaded
    \/ Idle
    \/ TimerFires
    \/ Unmount
    \/ Mount

SpecLife == Init /\ [][NextLife]_vars

---------------------------------------------------------------------------
(* setupHoverPopup called with any argument, the absent layer id included, *)
(* on a loaded map                                                         *)

InitHover ==
    \E level \in SteppedLevels :
        /\ phase = "ready"
        /\ selectedFloodLevel = level
        /\ hescoMode = FALSE
        /\ mapReady = TRUE
        /\ Start(OnLoad(InitWorld, FALSE, level, 0))
        /\ toggleOut = NoToggle
        /\ midFlight = FALSE
        /\ ops = 0

\* the values of activeLayerId: null, or the layer id of a level
HoverArgs == {<<>>} \cup {buildVisibleLayerId(level) : level \in SteppedLevels}

\* setupHoverPopup(activeLayerId)
CallSetupHover(activeLayerId) ==
    /\ ops < MaxHoverCalls
    /\ ops' = ops + 1
    /\ Commit(setupHoverPopup(World, activeLayerId, ops + 1))
    /\ UNCHANGED <<phase, selectedFloodLevel, hescoMode, mapReady, toggleOut, midFlight>>

NextHover ==
    \/ \E activeLayerId \in HoverArgs : CallSetupHover(activeLayerId)
    \/ SourcesLoaded
    \/ StyleData
    \/ Idle

SpecHover == InitHover /\ [][NextHover]_vars

---------------------------------------------------------------------------
(* The pointer moving over features of the active flood layer, with any    *)
(* value of the attributes DN and depth                                    *)

AttributeValues ==
    {JsUndefined, JsNull, JsNum(0), JsNum(320), JsNum(325), JsNum(1234),
     JsStr("3.2"), JsStr(""), JsStr("abc"), JsStr("12ft")}

\* a loaded map whose idle callback has bound the hover handlers
InitTooltip ==
    /\ phase = "ready"
    /\ selectedFloodLevel = InitialLevel
    /\ hescoMode = FALSE
    /\ mapReady = TRUE
    /\ Start(FireIdle([OnLoad(InitWorld, FALSE, InitialLevel, 0) EXCEPT !.styleLoaded = TRUE],
                      OnLoad(InitWorld, FALSE, InitialLevel, 0).idleListeners))
    /\ toggleOut = NoToggle
    /\ midFlight = FALSE
    /\ ops = 0

\* 'mousemove' on the active layer
MouseMove(DN, depth) ==
    /\ hoverHandlersRef.move # 0
    /\ Commit(moveHandler(World, [DN |-> DN, depth |-> depth]))
    /\ UNCHANGED <<phase, selectedFloodLevel, hescoMode, mapReady, toggleOut, midFlight, ops>>

\* 'mouseleave' on the active layer
MouseLeave ==
    /\ hoverHandlersRef.out # 0
    /\ Commit(outHandler(World))
    /\ UNCHANGED <<phase, selectedFloodLevel, hescoMode, mapReady, toggleOut, midFlight, ops>>

NextTooltip ==
    \/ \E DN \in AttributeValues, depth \in AttributeValues : MouseMove(DN, depth)
    \/ MouseLeave

SpecTooltip == InitTooltip /\ [][NextTooltip]_vars

---------------------------------------------------------------------------
(* Gauge poller of the earlier variant: fetchWaterLevels and its effect *)

MaxPolls == 3

gages == <<"15052500">>

\* what the service can answer to one request; "aborted" is the rejection of
\* a fetch whose signal was aborted while it was in flight
ServiceOutcomes ==
    {"networkError", "httpError", "badJson", "noSeries", "emptySeries",
     "badDate", "badNumber", "ok"}

FetchOutcomes == ServiceOutcomes \cup {"aborted"}

Offline == [value |-> "N/A", dateTime |-> "N/A", status |-> "Offline"]

\* Number.isFinite(v) ? v.toFixed(2) : 'N/A', on latest.value "5.234" or "Ice"
ReadingValue(outcome) == IF outcome = "ok" THEN "5.23" ELSE "N/A"

Thrown == [threw |-> TRUE, reading |-> Offline]

\* the body of the inner try, for one gauge
TryGage(outcome) ==
    CASE outcome \in {"aborted", "networkError"} -> Thrown
      [] outcome = "httpError" -> Thrown
      [] outcome = "badJson" -> Thrown
      [] outcome \in {"noSeries", "emptySeries"} ->
            [threw |-> FALSE, reading |-> Offline]
      [] outcome = "badDate" -> Thrown
      [] outcome \in {"badNumber", "ok"} ->
            [threw |-> FALSE,
             reading |-> [value |-> ReadingValue(outcome),
                          dateTime |-> "alaskaTime", status |-> "Online"]]

\* the inner try without its catch
gageFetch_NoCatch(outcome) == TryGage(outcome)

\* gages.map's callback: the inner try and its catch
gageFetch(outcome) ==
    IF TryGage(outcome).threw
    THEN [threw |-> FALSE, reading |-> Offline]
    ELSE TryGage(outcome)

NewRequest ==
    [aborted |-> FALSE, settled |-> FALSE, outcome |-> "pending",
     threw |-> FALSE, levels |-> <<>>]

\* aborter.abort(): rejects the request if it is still in flight
Abort(w, i) ==
    IF i = 0 \/ w.requests[i].settled
    THEN w
    ELSE [w EXCEPT !.requests[i].aborted = TRUE]

\* a poll that leaves the previous request alone
fetchWaterLevels_NoAbort(w) ==
    [w EXCEPT !.requests = Append(@, NewRequest),
              !.aborter = Len(w.requests) + 1]

\* fetchWaterLevels up to its await
fetchWaterLevels(w) ==
    [Abort(w, w.aborter) EXCEPT !.requests = Append(@, NewRequest),
                                !.aborter = Len(w.requests) + 1]

\* fetchWaterLevels after its await: Promise.all settles, the readings are
\* stored if the effect is still mounted
PollCompletes(w, i, outcome) ==
    LET results == [g \in DOMAIN gages |-> gageFetch(outcome)]
        rejected == \E g \in DOMAIN gages : results[g].threw
        fetchedLevels == IF rejected THEN <<>>
                         ELSE [g \in DOMAIN gages |-> results[g].reading]
        done == [w EXCEPT !.requests[i] =
                    [@ EXCEPT !.settled = TRUE, !.outcome = outcome,
                              !.threw = rejected, !.levels = fetchedLevels]]
    IN  IF ~rejected /\ w.pollerMounted
        THEN [done EXCEPT !.waterLevels = [by |-> i, levels |-> fetchedLevels]]
        ELSE done

\* the effect: mounted = true, the first poll, setInterval
PollerEffect(w) ==
    [fetchWaterLevels([w EXCEPT !.pollerMounted = TRUE]) EXCEPT !.interval = TRUE]

\* the cleanup of the effect
PollerCleanup(w) ==
    [Abort(w, w.aborter) EXCEPT !.pollerMounted = FALSE, !.interval = FALSE]

InitGauge ==
    /\ phase = "ready"
    /\ selectedFloodLevel = InitialLevel
    /\ hescoMode = FALSE
    /\ mapReady = TRUE
    /\ Start(PollerEffect(
           FireIdle([OnLoad(InitWorld, FALSE, InitialLevel, 0) EXCEPT !.styleLoaded = TRUE],
                    OnLoad(InitWorld, FALSE, InitialLevel, 0).idleListeners)))
    /\ toggleOut = NoToggle
    /\ midFlight = FALSE
    /\ ops = 0

\* the interval timer fires
IntervalTick ==
    /\ interval
    /\ Len(requests) < MaxPolls
    /\ Commit(fetchWaterLevels(World))
    /\ UNCHANGED <<phase, selectedFloodLevel, hescoMode, mapReady, toggleOut, midFlight, ops>>

\* the request of poll i settles and the poll resumes after its await
RequestSettles(i, outcome) ==
    /\ i \in DOMAIN requests
    /\ ~requests[i].settled
    /\ (outcome = "aborted") <=> requests[i].aborted
    /\ Commit(PollCompletes(World, i, outcome))
    /\ UNCHANGED <<phase, selectedFloodLevel, hescoMode, mapReady, toggleOut, midFlight, ops>>

\* the component unmounts: the cleanup of the polling effect
PollerUnmount ==
    /\ pollerMounted
    /\ Commit(PollerCleanup(World))
    /\ UNCHANGED <<phase, selectedFloodLevel, hescoMode, mapReady, toggleOut, midFlight, ops>>

NextGauge ==
    \/ IntervalTick
    \/ \E i \in 1..MaxPolls, outcome \in FetchOutcomes : RequestSettles(i, outcome)
    \/ PollerUnmount

SpecGauge == InitGauge /\ [][NextGauge]_vars

---------------------------------------------------------------------------
(* The map effect of the earlier variant and the effects that run with it *)

EarlyLevels == {10, 16}

\* cleanup of the map effect: the hover handlers off, map.remove(),
\* mapRef.current = null
EarlyMapCleanup(w) ==
    LET h == w.hoverHandlersRef
        w1 == IF h.layerId # <<>> /\ h.move # 0
              THEN Off(w, "mousemove", h.layerId, h.move) ELSE w
        w2 == IF h.layerId # <<>> /\ h.out # 0
              THEN Off(w1, "mouseleave", h.layerId, h.out) ELSE w1
    IN  [MapRemove(w2) EXCEPT !.mapRef = FALSE]

\* the map effect: if (mapRef.current) return; new mapboxgl.Map;
\* mapRef.current = map
EarlyMapEffect(w) ==
    IF w.mapRef THEN w
    ELSE [w EXCEPT !.mapRemoves = Append(@, 0), !.mapRef = TRUE]

\* if (!mapReady) return; safeUpdateFloodLayers(hescoMode)
RebuildEffect(w, ready, mode, level, gen) ==
    IF ~ready THEN w ELSE safeUpdateFloodLayers(w, mode, level, gen)

\* if (hescoMode && out of range) { setHescoMode(false); safeUpdateFloodLayers(false) }
ResetEffect(w, mode, level, gen) ==
    IF mode /\ OutOfHescoRange(level)
    THEN safeUpdateFloodLayers(w, FALSE, level, gen)
    ELSE w

\* if (!map || !mapReady) return; runWhenStyleReady(map, flip)
FlipEffect(w, ready, level, gen) ==
    IF ~w.mapRef \/ ~ready THEN w
    ELSE runWhenStyleReady(w, FlipFn(level, gen))

\* the render after hescoMode changed: the cleanup of the map effect, then
\* the effects that depend on hescoMode, in their order
OnModeChange(w, ready, mode, level, gen) ==
    ResetEffect(RebuildEffect(EarlyMapEffect(EarlyMapCleanup(w)), ready, mode, level, gen),
                mode, level, gen)

\* the render after selectedFloodLevel changed: updateFloodLayers and
\* safeUpdateFloodLayers are new functions, so all four effects re-run; a
\* reset of hescoMode is followed by the render of that change
OnLevelChange(w, ready, mode, level, gen) ==
    LET w1 == EarlyMapEffect(EarlyMapCleanup(w))
        w2 == RebuildEffect(w1, ready, mode, level, gen)
        w3 == ResetEffect(w2, mode, level, gen)
        w4 == FlipEffect(w3, ready, level, gen)
    IN  IF mode /\ OutOfHescoRange(level)
        THEN OnModeChange(w4, ready, FALSE, level, gen)
        ELSE w4

\* map.on('load'): safeUpdateFloodLayers(hescoMode); setMapReady(true); when
\* mapReady changes the effects that depend on it run
EarlyOnLoad(w, ready, mode, level, gen) ==
    LET w1 == safeUpdateFloodLayers([w EXCEPT !.styleLoaded = TRUE], mode, level, gen)
    IN  IF ready THEN w1
        ELSE FlipEffect(RebuildEffect(w1, TRUE, mode, level, gen), TRUE, level, gen)

\* the component has mounted: the map effect created the map and set mapRef
InitEarly ==
    /\ phase = "loading"
    /\ selectedFloodLevel = InitialLevel
    /\ hescoMode = FALSE
    /\ mapReady = FALSE
    /\ Start([InitWorld EXCEPT !.mapRef = TRUE])
    /\ toggleOut = NoToggle
    /\ midFlight = FALSE
    /\ ops = 0

EarlyLoad ==
    /\ phase = "loading"
    /\ phase' = "ready"
    /\ mapReady' = TRUE
    /\ Commit(EarlyOnLoad(World, mapReady, hescoMode, selectedFloodLevel, ops))
    /\ UNCHANGED <<selectedFloodLevel, hescoMode, toggleOut, midFlight, ops>>

\* the stepper calls setSelectedFloodLevel(level)
EarlySelect(level) ==
    /\ phase # "unmounted"
    /\ ops < MaxOps
    /\ level # selectedFloodLevel
    /\ selectedFloodLevel' = level
    /\ hescoMode' = (hescoMode /\ ~OutOfHescoRange(level))
    /\ ops' = ops + 1
    /\ phase' = "loading"
    /\ Commit(OnLevelChange(World, mapReady, hescoMode, level, ops + 1))
    /\ UNCHANGED <<mapReady, toggleOut, midFlight>>

\* click on the HESCO button: setHescoMode((prev) => !prev)
EarlyToggle ==
    /\ phase # "unmounted"
    /\ ops < MaxOps
    /\ ToggleButtonEnabled
    /\ hescoMode' = ~hescoMode
    /\ ops' = ops + 1
    /\ phase' = "loading"
    /\ Commit(OnModeChange(World, mapReady, ~hescoMode, selectedFloodLevel, ops + 1))
    /\ UNCHANGED <<selectedFloodLevel, mapReady, toggleOut, midFlight>>

\* the renderer fires 'styledata', also while its style is still loading
EarlyStyleData ==
    /\ phase # "unmounted"
    /\ styleListeners # <<>>
    /\ Commit(FireStyledata(World, styleListeners))
    /\ UNCHANGED <<phase, selectedFloodLevel, hescoMode, mapReady, toggleOut, midFlight, ops>>

\* the component unmounts: the cleanup of the map effect
EarlyUnmount ==
    /\ phase # "unmounted"
    /\ phase' = "unmounted"
    /\ Commit(EarlyMapCleanup(World))
    /\ UNCHANGED <<selectedFloodLevel, hescoMode, mapReady, toggleOut, midFlight, ops>>

NextEarly ==
    \/ EarlyLoad
    \/ \E level \in EarlyLevels : EarlySelect(level)
    \/ EarlyToggle
    \/ EarlyStyleData
    \/ SourcesLoaded
    \/ Idle
    \/ EarlyUnmount

SpecEarly == InitEarly /\ [][NextEarly]_vars

---------------------------------------------------------------------------
(* The business effect, the fetch that feeds it and the map effect, run    *)
(* again after their cleanup with state and refs kept                      *)

NewFetch == [cancelled |-> FALSE, settled |-> FALSE]

\* if (!map || !mapReady || !bizData) return; runWhenStyleReady(map, ...)
BizEffect(w, ready, data, gen) ==
    IF ~w.mapRef \/ ~ready \/ data = 0 THEN w
    ELSE runWhenStyleReady(w, BizFn(data, gen))

\* the fetch effect: let cancelled = false; fetch(url)
FetchEffect(w) == [w EXCEPT !.bizFetches = Append(@, NewFetch)]

\* cleanup of the fetch effect: cancelled = true
FetchCleanup(w) == [w EXCEPT !.bizFetches[Len(w.bizFetches)].cancelled = TRUE]

\* the fetch settles: if (!cancelled) setBizData(json), and the business
\* effect runs for the new bizData; a failed fetch is logged
FetchSettles(w, i, ok, ready, gen) ==
    LET w1 == [w EXCEPT !.bizFetches[i].settled = TRUE]
    IN  IF ok /\ ~w.bizFetches[i].cancelled
        THEN BizEffect([w1 EXCEPT !.bizData = i], ready, i, gen)
        ELSE w1

\* map.on('load'): mapRef.current = map; setMapReady(true); the effects that
\* depend on mapReady run in their order, the business effect first
BizOnLoad(w, mode, level, gen) ==
    LET w0 == [w EXCEPT !.mapRef = TRUE, !.styleLoaded = TRUE]
        w1 == BizEffect(w0, TRUE, w.bizData, gen)
        w2 == safeUpdateFloodLayers(w1, mode, level, gen)
    IN  safeUpdateFloodLayers(w2, mode, level, gen)

InitBiz ==
    /\ phase = "loading"
    /\ selectedFloodLevel = InitialLevel
    /\ hescoMode = FALSE
    /\ mapReady = FALSE
    /\ Start(FetchEffect(InitWorld))
    /\ toggleOut = NoToggle
    /\ midFlight = FALSE
    /\ ops = 0

BizLoad ==
    /\ phase = "loading"
    /\ phase' = "ready"
    /\ mapReady' = TRUE
    /\ Commit(BizOnLoad(World, hescoMode, selectedFloodLevel, ops))
    /\ UNCHANGED <<selectedFloodLevel, hescoMode, toggleOut, midFlight, ops>>

BizFetchSettles(i, ok) ==
    /\ i \in DOMAIN bizFetches
    /\ ~bizFetches[i].settled
    /\ Commit(FetchSettles(World, i, ok, mapReady, ops))
    /\ UNCHANGED <<phase, selectedFloodLevel, hescoMode, mapReady, toggleOut, midFlight, ops>>

\* the effects are cleaned up: the map effect and the fetch effect have a
\* cleanup, the business effect returns none
BizUnmount ==
    /\ phase # "unmounted"
    /\ phase' = "unmounted"
    /\ mapReady' = FALSE
    /\ Commit(FetchCleanup(MapCleanup(World)))
    /\ UNCHANGED <<selectedFloodLevel, hescoMode, toggleOut, midFlight, ops>>

\* the effects run again: a new map, a new fetch; the business effect
\* returns at its guard since mapRef.current is null
BizMount ==
    /\ phase = "unmounted"
    /\ ops < MaxOps
    /\ ~mapRef
    /\ phase' = "loading"
    /\ ops' = ops + 1
    /\ Commit(BizEffect(FetchEffect([World EXCEPT !.mapRemoves = Append(@, 0)]),
                        mapReady, bizData, ops + 1))
    /\ UNCHANGED <<selectedFloodLevel, hescoMode, mapReady, toggleOut, midFlight>>

NextBiz ==
    \/ BizLoad
    \/ \E i \in 1..(MaxOps + 1), ok \in BOOLEAN : BizFetchSettles(i, ok)
    \/ StyleData
    \/ SourcesLoaded
    \/ Idle
    \/ BizUnmount
    \/ BizMount

SpecBiz == InitBiz /\ [][NextBiz]_vars

---------------------------------------------------------------------------
(* Properties *)

Range(seq) == {seq[i] : i \in DOMAIN seq}

VisibleLayers == {id \in DOMAIN layers : layers[id] = "visible"}

TileIndex(level) == FirstTile + (level - LevelBase)

\* every idle callback, styledata callback and timer has fired and the
\* style is loaded
Settled ==
    /\ phase = "ready"
    /\ styleLoaded
    /\ styleListeners = <<>>
    /\ idleListeners = <<>>
    /\ timers = <<>>

HoverBoundTo(layerId) ==
    /\ hoverHandlersRef.layerId = layerId
    /\ handlers = {[type |-> "mousemove", layerId |-> layerId, fn |-> hoverHandlersRef.move],
                   [type |-> "mouseleave", layerId |-> layerId, fn |-> hoverHandlersRef.out]}
    /\ Cardinality(handlers) = 2

\* C1: after updateFloodLayers(M) has run with selectedFloodLevel = L, at
\* most one flood layer is visible, one is visible exactly when tilesetMap
\* has an entry for (M, 64 + (L - 8)), and the visible one is
\* flood{64+(L-8)}-fill.
C1_OneVisibleIffTileset ==
    (phase = "ready" /\ lastUpdate # None) =>
        /\ Cardinality(VisibleLayers) <= 1
        /\ (VisibleLayers # {}) <=> HasTileset(lastUpdate.mode, TileIndex(lastUpdate.level))
        /\ VisibleLayers \subseteq {buildVisibleLayerId(lastUpdate.level)}

\* C1 witness: the update ran in barrier mode at level 16 and made
\* flood72-fill visible
C1_Witness ==
    /\ phase = "ready"
    /\ lastUpdate.mode /\ lastUpdate.level = 16
    /\ VisibleLayers = {<<"flood", 72, "-fill">>}

\* C2: a flood source or layer for tile index t exists only if tilesetMap
\* has an entry for (mode, t), mode being the mode of the update that
\* created it; the source is that entry's tileset, and no renderer call
\* has raised.
C2_LayerOnlyWithTileset ==
    /\ ~threw
    /\ \A t \in validLevels :
          (sources[FloodId(t)] # Absent \/ layers[FillId(FloodId(t))] # Absent) =>
              /\ lastUpdate # None
              /\ HasTileset(lastUpdate.mode, t)
              /\ sources[FloodId(t)] = tilesetMap(lastUpdate.mode, t)
              /\ layers[FillId(FloodId(t))] # Absent

\* C2 witness: a barrier-mode update built tile 72 from the barrier
\* tileset and left tile 64, which has no barrier tileset, without source
\* and layer
C2_Witness ==
    /\ lastUpdate.mode
    /\ sources[FloodId(72)] = "9kmxxb2g"
    /\ sources[FloodId(64)] = Absent
    /\ layers[FillId(FloodId(64))] = Absent

\* C3: at most one mousemove and at most one mouseleave handler installed
\* by setupHoverPopup are registered, both on the layer id recorded in
\* hoverHandlersRef and both the functions recorded there.
C3_SingleHoverBinding ==
    /\ Cardinality({h \in handlers : h.type = "mousemove"}) <= 1
    /\ Cardinality({h \in handlers : h.type = "mouseleave"}) <= 1
    /\ \A h \in handlers :
          /\ h.layerId = hoverHandlersRef.layerId
          /\ h.fn = IF h.type = "mousemove" THEN hoverHandlersRef.move
                    ELSE hoverHandlersRef.out

\* C3 witness: a superseded completion had bound the handlers, a later
\* setupHoverPopup rebound them, and one pair is registered on the layer of
\* level 16
C3_Witness ==
    /\ staleRebind
    /\ HoverBoundTo(buildVisibleLayerId(16))
    /\ selectedFloodLevel = 16

\* C4: once every pending idle callback, styledata callback and timer has
\* fired after at least one selection change, the hover handlers are bound
\* to exactly one layer, the one of the last requested selection (stated
\* for the selections that have a tileset in the current mode).
C4_HoverOnLastSelection ==
    (/\ Settled
     /\ ops > 0
     /\ HasTileset(hescoMode, TileIndex(selectedFloodLevel)))
        => HoverBoundTo(buildVisibleLayerId(selectedFloodLevel))

\* C5: in every settled state hescoMode = true implies
\* 14 <= selectedFloodLevel <= 18.
C5_HescoOnlyInRange ==
    Settled => (hescoMode => ~OutOfHescoRange(selectedFloodLevel))

\* C6: toggleHescoMode called while selectedFloodLevel is outside [14,18]
\* leaves hescoMode = false, whatever it was before, and every layer update
\* the call issues is for base mode.
C6_ToggleOutOfRangeIsBase ==
    (toggleOut.called /\ OutOfHescoRange(toggleOut.level)) =>
        /\ hescoMode = FALSE
        /\ \A fn \in Range(styleListeners) :
              (fn.kind = "update" /\ fn.gen = 1) => fn.mode = FALSE
        /\ lastUpdate.gen = 1 => lastUpdate.mode = FALSE

\* C6 witness: the toggle was called in barrier mode at a level below 14,
\* its base-mode update has run and everything has settled
C6_Witness ==
    /\ toggleOut.called /\ OutOfHescoRange(toggleOut.level) /\ toggleOut.prev
    /\ lastUpdate.gen = 1
    /\ Settled

\* C7: fn is invoked at most once per runWhenStyleReady call: synchronously
\* and with no listener registered when the style is loaded, otherwise on
\* the first styledata event after the call, whose listener is taken off so
\* that later styledata events do not invoke it again.
C7_StateOnce ==
    \A i \in 1..MaxProbes :
        /\ probeRuns[i] <= 1
        /\ Cardinality({k \in DOMAIN styleListeners : styleListeners[k] = ProbeFn(i)}) <= 1
        /\ i <= ops => ((probeRuns[i] = 1) <=> (ProbeFn(i) \notin Range(styleListeners)))
        /\ i > ops => (probeRuns[i] = 0 /\ ProbeFn(i) \notin Range(styleListeners))

C7_CallStep ==
    GateCall =>
        IF styleLoaded
        THEN /\ probeRuns' = [probeRuns EXCEPT ![ops + 1] = 1]
             /\ styleListeners' = styleListeners
        ELSE /\ probeRuns' = probeRuns
             /\ styleListeners' = Append(styleListeners, ProbeFn(ops + 1))

C7_EventStep ==
    StyleData =>
        /\ styleListeners' = <<>>
        /\ probeRuns' = [i \in DOMAIN probeRuns |->
                            IF ProbeFn(i) \in Range(styleListeners)
                            THEN probeRuns[i] + 1 ELSE probeRuns[i]]

C7_GateInvokesOnce ==
    /\ []C7_StateOnce
    /\ [][C7_CallStep /\ C7_EventStep]_vars

\* C7 witness: one probe has run, a later one is subscribed and waits for
\* styledata while the style is not loaded
C7_Witness ==
    /\ probeRuns[1] = 1 /\ probeRuns[2] = 1
    /\ styleListeners = <<ProbeFn(3)>>
    /\ ~styleLoaded

\* C8: a layer update deferred because the style was not loaded is never
\* dropped: no deferred updateFloodLayers call returns without running its
\* body.
C8_DeferredUpdateNeverDropped == ~droppedUpdate

\* C9: the completion (idle callback or 300 ms timer) of an update that a
\* newer selection change has superseded is discarded: it installs no
\* hover handlers.
C9_StaleCompletionDiscarded == ~staleRebind

\* C10: after toggling to base mode from level 16 in barrier mode with the
\* barrier layers built and the renderer not yet idle, once everything
\* pending has fired exactly one flood layer is visible, it is built from
\* the base tileset of tile index 72, and the hover handlers are bound to it.
C10_BaseAfterMidFlightToggle ==
    (Settled /\ midFlight) =>
        /\ VisibleLayers = {buildVisibleLayerId(16)}
        /\ sources[FloodId(72)] = tilesetBase[72]
        /\ HoverBoundTo(buildVisibleLayerId(16))

\* C11: running updateFloodLayers a second time in a row for the same
\* (mode, selectedFloodLevel) leaves every source and every layer as the
\* first run left them (one source and one layer per tile index that has a
\* tileset in that mode, same visibilities) and no add is attempted for an
\* id that exists.
C11_UpdateIdempotent ==
    [][(/\ Len(idleListeners') > Len(idleListeners)
        /\ lastUpdate # None
        /\ lastUpdate'.mode = lastUpdate.mode
        /\ lastUpdate'.level = lastUpdate.level)
       => (/\ layers' = layers
           /\ sources' = sources
           /\ ~threw'
           /\ \A t \in validLevels :
                 HasTileset(lastUpdate'.mode, t) <=>
                     (/\ sources'[FloodId(t)] # Absent
                      /\ layers'[FillId(FloodId(t))] # Absent))]_vars

\* C11 witness: both updates of the load have run for barrier mode at
\* level 16, the second one after the sources of the first had loaded
C11_Witness ==
    /\ Len(idleListeners) = 2
    /\ idleListeners[1] = idleListeners[2]
    /\ lastUpdate.mode /\ lastUpdate.level = 16
    /\ layers[FillId(FloodId(72))] = "visible"
    /\ ~threw

\* C12 as stated: level 9 in base mode makes exactly flood73-fill visible.
C12_Level9ShowsFlood73 ==
    (phase = "ready" /\ lastUpdate # None /\ ~lastUpdate.mode /\ lastUpdate.level = 9) =>
        /\ VisibleLayers = {<<"flood", 73, "-fill">>}
        /\ \A id \in LayerIds \ {<<"flood", 73, "-fill">>} : layers[id] = "none"

\* C12 amended: after the update for level 9 in base mode has run, exactly
\* layer flood65-fill is visible and every other flood layer is hidden.
C12_Level9ShowsFlood65 ==
    (phase = "ready" /\ lastUpdate # None /\ ~lastUpdate.mode /\ lastUpdate.level = 9) =>
        /\ VisibleLayers = {<<"flood", 65, "-fill">>}
        /\ \A id \in LayerIds \ {<<"flood", 65, "-fill">>} : layers[id] = "none"

\* C12 witness: level 9 was selected again after another level, its
\* base-mode update has run and flood65-fill is the visible layer
C12_Witness ==
    /\ phase = "ready"
    /\ ops > 1
    /\ ~lastUpdate.mode /\ lastUpdate.level = 9 /\ lastUpdate.gen > 1
    /\ layers[<<"flood", 65, "-fill">>] = "visible"

\* C13 as stated: after an update for level 18 has run, in either mode, no
\* flood layer is visible, loadingLayers is false and nothing has raised.
C13_Level18ShowsNothing ==
    (phase = "ready" /\ lastUpdate # None /\ lastUpdate.level = 18) =>
        /\ VisibleLayers = {}
        /\ ~loadingLayers
        /\ ~threw

\* C13 amended: level 18 yields tile index 74, inside 64..76, which has a
\* tileset in both modes: after an update for level 18 has run, in either
\* mode, exactly flood74-fill is visible, loadingLayers is false and
\* nothing has raised.
C13_Level18ShowsFlood74 ==
    (phase = "ready" /\ lastUpdate # None /\ lastUpdate.level = 18) =>
        /\ targetLevel(18) \in validLevels
        /\ VisibleLayers = {<<"flood", 74, "-fill">>}
        /\ ~loadingLayers
        /\ ~threw

\* C13 witness: the barrier-mode update for level 18 has run and its
\* sources have loaded
C13_Witness ==
    /\ phase = "ready"
    /\ lastUpdate.mode /\ lastUpdate.level = 18
    /\ styleLoaded
    /\ sources[FloodId(74)] = "cz0f7io4"
    /\ layers[<<"flood", 74, "-fill">>] = "visible"

Last(seq) == seq[Len(seq)]

\* the last executed update asked for a (mode, level) without a tileset
NoTilesetRequested(u) == u # None /\ ~HasTileset(u.mode, TileIndex(u.level))

C14_RegistersIdle ==
    (lastUpdate' # lastUpdate /\ NoTilesetRequested(lastUpdate')) =>
        /\ idleListeners' # <<>>
        /\ Last(idleListeners') =
               HoverFn(buildVisibleLayerId(lastUpdate'.level), lastUpdate'.gen)
        /\ ~loadingLayers'

C14_IdleBindsNothing ==
    (/\ Idle
     /\ NoTilesetRequested(lastUpdate)
     /\ Last(idleListeners) =
            HoverFn(buildVisibleLayerId(lastUpdate.level), lastUpdate.gen)) =>
        /\ handlers' = {}
        /\ hoverHandlersRef' = NoHandlers

\* C14: an update whose (mode, level) has no tileset still registers its
\* idle callback, and when that idle event has fired no hover handler is
\* bound: the binding of the previous active layer is removed and none is
\* installed.
C14_NoTilesetBindsNothing == [][C14_RegistersIdle /\ C14_IdleBindsNothing]_vars

\* C14 witness: hover handlers had been bound to a layer, then level 5 (tile
\* index 61, no tileset) was selected, its update ran, its idle callback
\* fired and nothing is bound
C14_Witness ==
    /\ Settled
    /\ lastUpdate.level = 5
    /\ NoTilesetRequested(lastUpdate)
    /\ activeLayerIdRef # <<>>
    /\ popupRef
    /\ handlers = {}
    /\ hoverHandlersRef = NoHandlers

\* C15: hover handlers for the layer of the last layer update are installed
\* only after the idle event that follows that update: no step installs
\* them while the update's idle callback is still pending.
C15_HoverOnlyAfterIdle ==
    [][~(/\ hoverHandlersRef' # hoverHandlersRef
         /\ hoverHandlersRef'.layerId # <<>>
         /\ lastUpdate' # None
         /\ hoverHandlersRef'.layerId = buildVisibleLayerId(lastUpdate'.level)
         /\ HoverFn(hoverHandlersRef'.layerId, lastUpdate'.gen)
                \in Range(idleListeners'))]_vars

\* C16: at most one hover popup is ever built by setupHoverPopup, and once
\* built it is the one popupRef holds for every later rebind.
C16_SinglePopup ==
    /\ popupsCreated <= 1
    /\ popupRef <=> (popupsCreated = 1)

\* C16 witness: the handlers were bound by a superseded completion and
\* bound again to the layer of level 10, with one popup built
C16_Witness ==
    /\ popupsCreated = 1
    /\ staleRebind
    /\ HoverBoundTo(buildVisibleLayerId(10))

\* C17: a call of setupHoverPopup with a null layer id leaves nothing
\* bound: the handlers bound by an earlier call are removed and
\* hoverHandlersRef is cleared.
C17_NullLayerUnbinds ==
    [][CallSetupHover(<<>>) =>
          (handlers' = {} /\ hoverHandlersRef' = NoHandlers)]_vars

\* C18: every map the component created has had remove() called exactly
\* once when its effect has been cleaned up and never before: no map is
\* left without remove() after the cleanup and none is removed twice.
C18_RemovedExactlyOnce ==
    \A i \in DOMAIN mapRemoves :
        mapRemoves[i] = IF i = Len(mapRemoves) /\ phase # "unmounted" THEN 0 ELSE 1

\* C18 witness: two maps were created, layers were built on one of them,
\* and both have been removed once
C18_Witness ==
    /\ phase = "unmounted"
    /\ mapRemoves = <<1, 1>>
    /\ lastUpdate # None

\* C19: after the cleanup of the map effect no callback of the component
\* touches the removed renderer or installs a handler: a step taken while
\* unmounted leaves handlers, listeners, sources, layers and the hover
\* refs as they were and calls remove() on no map.
C19_LateCallbacksNoOp ==
    [][(phase = "unmounted" /\ phase' = "unmounted") =>
          /\ handlers' = handlers
          /\ hoverHandlersRef' = hoverHandlersRef
          /\ styleListeners' = styleListeners
          /\ idleListeners' = idleListeners
          /\ sources' = sources
          /\ layers' = layers
          /\ popupsCreated' = popupsCreated
          /\ mapRemoves' = mapRemoves
          /\ ~mapRef']_vars

\* C19 witness: the 300 ms timer of a toggle fired after the cleanup and
\* nothing is registered on the removed map
C19_Witness ==
    /\ phase = "unmounted"
    /\ lateFired
    /\ timers = <<>>
    /\ handlers = {}
    /\ styleListeners = <<>>

\* C20: every execution of updateFloodLayers that sets loadingLayers to
\* true sets it back to false before it returns, so loadingLayers is false
\* in every state between two handlers, whatever the mode and the level.
C20_LoadingOnlyInFlight == ~loadingLayers

\* C20 witness: the barrier-mode update for level 10 has run, eight of its
\* thirteen levels returned at the tileset guard, and loadingLayers is false
C20_Witness ==
    /\ lastUpdate.mode /\ lastUpdate.level = 10
    /\ Cardinality(validLevels \ AddedLevels(TRUE)) = 8
    /\ idleListeners # <<>>
    /\ ~loadingLayers

C22_IdsDifferByMode ==
    \A t \in validLevels :
        (lastUpdate # None /\ sources[SourceIdOf(lastUpdate.mode, t)] # Absent) =>
            /\ SourceIdOf(lastUpdate.mode, t) # SourceIdOf(~lastUpdate.mode, t)
            /\ LayerIdOf(lastUpdate.mode, t) # LayerIdOf(~lastUpdate.mode, t)

\* C23 as stated: for every level of 1..18 an update ran for, the tile
\* index 64 + (level - 8) lies within 64..76.
C23_TileIndexInRange ==
    (lastUpdate # None /\ lastUpdate.level \in Levels) =>
        targetLevel(lastUpdate.level) \in validLevels

\* C23 amended: for every level of 1..18 an update ran for, the tile index
\* 64 + (level - 8) lies within 64..76 exactly when the level is 8 or
\* more; the levels 1..7 give 57..63.
C23_TileIndexInRangeFrom8 ==
    (lastUpdate # None /\ lastUpdate.level \in Levels) =>
        /\ (lastUpdate.level >= LevelBase) <=>
               (targetLevel(lastUpdate.level) \in validLevels)
        /\ (lastUpdate.level < LevelBase) =>
               (targetLevel(lastUpdate.level) \in 57..63)

\* C23 witness: the update ran for level 7, whose tile index 63 has no
\* layer, so no flood layer is visible
C23_Witness ==
    /\ lastUpdate # None /\ lastUpdate.level = 7
    /\ targetLevel(7) = 63
    /\ VisibleLayers = {}
    /\ sources[FloodId(64)] # Absent

\* C24: with hescoMode unchanged, a change of selectedFloodLevel removes
\* no flood layer or source: what an earlier update built is never
\* destroyed by the update of a later selection change.
C24_SelectionOnlyFlipsVisibility == ~rebuiltOnChange

\* the sources and layers an update for (mode, level) builds
BuiltFor(mode, level) ==
    /\ \A t \in validLevels :
          /\ sources[FloodId(t)] =
                 IF HasTileset(mode, t) THEN tilesetMap(mode, t) ELSE Absent
          /\ (layers[FillId(FloodId(t))] # Absent) <=> HasTileset(mode, t)
    /\ VisibleLayers =
           IF HasTileset(mode, TileIndex(level))
           THEN {buildVisibleLayerId(level)} ELSE {}

DepthAttribute(props) == Coalesce(props.DN, props.depth)

\* the attribute is a number or a string that spells one
IsNumeric(v) ==
    \/ v.type = "number"
    \/ v.type = "string" /\ v.str # "" /\ ToNumber(v).type = "number"

\* C27: the popup shows 'Water Depth: <d> ft' where <d> is the depth
\* attribute (DN, else depth) with one decimal when it is numeric and the
\* literal 'Unknown' when it is absent or not numeric.
C27_TooltipText ==
    popupHTML.shown =>
        popupHTML.text =
            IF IsNumeric(DepthAttribute(hoverProps))
            THEN Fixed((ToNumber(DepthAttribute(hoverProps)).num + 5) \div 10)
            ELSE Raw("Unknown")

\* requests in flight whose signal is not aborted
LiveRequests == {i \in DOMAIN requests : ~requests[i].settled /\ ~requests[i].aborted}

\* C25: while the polling effect is mounted at most one gauge request is in
\* flight and not aborted; after its cleanup none is, the interval timer is
\* cleared and no further poll starts
C25_OneLiveRequest ==
    /\ [](/\ pollerMounted => Cardinality(LiveRequests) <= 1
          /\ ~pollerMounted => (LiveRequests = {} /\ ~interval))
    /\ [][~pollerMounted => Len(requests') = Len(requests)]_vars

C25_Witness ==
    /\ ~pollerMounted
    /\ Len(requests) >= 2
    /\ \A i \in DOMAIN requests : requests[i].aborted
    /\ \E i \in DOMAIN requests : ~requests[i].settled

GaugeFailures ==
    {"aborted", "networkError", "httpError", "noSeries", "emptySeries"}

\* C26: a poll that has completed has one reading per gauge, a failed fetch,
\* a non-OK status or an absent or empty series reads Offline / N/A, nothing
\* was thrown out of the gauge's fetch, and the step of a poll leaves
\* hescoMode, selectedFloodLevel, the flood layers and the hover binding alone
C26_PollNeverFails ==
    /\ [](\A i \in DOMAIN requests :
            requests[i].settled =>
                /\ ~requests[i].threw
                /\ Len(requests[i].levels) = Len(gages)
                /\ requests[i].outcome \in GaugeFailures =>
                       \A g \in DOMAIN gages : requests[i].levels[g] = Offline)
    /\ [][(requests' # requests \/ waterLevels' # waterLevels) =>
              UNCHANGED <<hescoMode, selectedFloodLevel, sources, layers, handlers,
                          hoverHandlersRef, activeLayerIdRef>>]_vars

C26_Witness ==
    /\ Len(requests) >= 2
    /\ \E i \in DOMAIN requests : requests[i].settled /\ requests[i].outcome = "httpError"
    /\ \E i \in DOMAIN requests : requests[i].settled /\ requests[i].outcome = "noSeries"
    /\ layers # NoLayers
    /\ hoverHandlersRef.move # 0

\* C28: in the earlier variant no change of selectedFloodLevel or hescoMode
\* removes the renderer or creates another one
C28_InitialisedOnce ==
    [][(selectedFloodLevel' # selectedFloodLevel \/ hescoMode' # hescoMode) =>
           mapRemoves' = mapRemoves]_vars

BizHandlers(type) == {h \in handlers : h.layerId = BIZ_LAYER_ID /\ h.type = type}

\* C29: at most one mouseenter, one mousemove and one mouseleave handler of
\* the business effect is registered on businesses-layer at any time, and
\* none once the component has unmounted
C29_OneBizHandlerSet ==
    /\ \A type \in BizHandlerTypes : Cardinality(BizHandlers(type)) <= 1
    /\ phase = "unmounted" => \A type \in BizHandlerTypes : BizHandlers(type) = {}

\* C31: waterLevels is never set by a poll whose request was aborted by the
\* start of a newer poll
C31_SupersededNeverWrites ==
    waterLevels.by # 0 => ~requests[waterLevels.by].aborted

=============================================================================
